---- MODULE Spec2Model ----
(***************************************************************************)
(* State machine of MainWindow (src/main.py): the asset state, the         *)
(* presentation state, the control flags, the plotter scene and the        *)
(* handlers that act on them.  A handler that calls                        *)
(* QApplication.processEvents() is split at that call: while it waits      *)
(* there its frame is on `stack` and Qt may dispatch any pending control   *)
(* event, which runs to completion (or to its own processEvents call)      *)
(* before the waiting handler goes on.                                     *)
(***************************************************************************)
EXTENDS Integers, Sequences, FiniteSets, TLC

\* ---------------------------------------------------------------- bounds
\* Handlers that may be in flight at once (one waiting in processEvents per level).
MaxDepth == 2
\* Vertex counts of decoded meshes: 0..MaxVerts.
MaxVerts == 1
\* Float colour channels are multiples of 1/FloatDen.
FloatDen == 2

\* ---------------------------------------------------------------- values
\* Python's None.  Every optional value is a record, so that it compares with None.
None == [kind |-> "None"]

\* The files the open dialogs can return (lines 166, 248) and the destination
\* the save dialog can return (line 497).
MeshFiles == {"model.ply"}
ImageFiles == {"photo.png"}
SaveFiles == {"saved.ply"}
Path(p) == [kind |-> "path", name |-> p]

Styles == {"surface", "wireframe", "points"}
\* The valid colours QColorDialog can return (color.name()).
Colors == {[kind |-> "color", name |-> "#ff0000"]}
\* Slider positions used by the model; the slider ranges over 0..100 (lines 88-90).
\* current_opacity is kept in hundredths: value / 100.0 of line 412 is the slider value.
SliderValues == {50, 100}

\* Image.open(path).convert("RGBA"): the decoded picture of the file
Image(p) == [kind |-> "image", path |-> p, size |-> <<2, 1>>, bg_removed |-> FALSE]
\* Image.open(BytesIO(remove_background(png bytes))).convert("RGBA")
RemovedBackground(img) == [img EXCEPT !.bg_removed = TRUE]

\* ------------------------------------------------------- colour arrays
\* A colour array: dtype and rows of 3 or 4 channels.  A float channel v is
\* held as the integer v * FloatDen.
Uint8Colors(rows) == [kind |-> "colors", dtype |-> "uint8", rows |-> rows]
FloatColors(rows) == [kind |-> "colors", dtype |-> "float", rows |-> rows]

RECURSIVE SeqMax(_)
SeqMax(q) == IF q = <<>> THEN 0
             ELSE LET m == SeqMax(Tail(q)) IN IF Head(q) > m THEN Head(q) ELSE m

\* np.max(colors) over a non-empty array
ArrayMax(rows) == SeqMax([i \in 1..Len(rows) |-> SeqMax(rows[i])])

\* colors[:, :3]
DropAlpha(rows) == [i \in 1..Len(rows) |-> SubSeq(rows[i], 1, 3)]

\* An exception raised while a value is computed
Raised == [kind |-> "raised"]

\* ToDisplay without the element-type test of line 271: the maximum alone
\* decides, for 8-bit arrays too
ToDisplay_by_max_alone(vc) ==
  LET rows3 == IF Len(vc.rows) > 0 /\ Len(vc.rows[1]) = 4 THEN DropAlpha(vc.rows)
               ELSE vc.rows
      one == IF vc.dtype = "uint8" THEN 1 ELSE FloatDen
  IN IF rows3 = <<>> THEN Raised
     ELSE IF ArrayMax(rows3) <= one
       THEN Uint8Colors([i \in 1..Len(rows3) |->
              [j \in 1..Len(rows3[i]) |-> ((rows3[i][j] * 255) \div one) % 256]])
       ELSE Uint8Colors([i \in 1..Len(rows3) |->
              [j \in 1..Len(rows3[i]) |-> (rows3[i][j] \div one) % 256]])

\* lines 269-273: the display form of the authoring colours; Raised when numpy
\* raises (np.max of an empty array, line 272).
ToDisplay(vc) ==
  LET rows3 == IF Len(vc.rows) > 0 /\ Len(vc.rows[1]) = 4 THEN DropAlpha(vc.rows)
               ELSE vc.rows
  IN IF vc.dtype = "uint8" THEN Uint8Colors(rows3)
     ELSE IF rows3 = <<>> THEN Raised
     ELSE IF ArrayMax(rows3) <= FloatDen
       THEN Uint8Colors([i \in 1..Len(rows3) |->
              [j \in 1..Len(rows3[i]) |-> ((rows3[i][j] * 255) \div FloatDen) % 256]])
       ELSE Uint8Colors([i \in 1..Len(rows3) |->
              [j \in 1..Len(rows3[i]) |-> (rows3[i][j] \div FloatDen) % 256]])

\* An RGBA uint8 colour array of n rows, as trimesh keeps vertex colours
Rgba8(n) == Uint8Colors([i \in 1..n |-> <<200, 100, i, 255>>])

\* trimesh.load(file_path, force='mesh') returning a Trimesh
Trimesh(p, n, vc) ==
  [kind |-> "Trimesh", path |-> p, n_vertices |-> n, vertex_colors |-> vc]

\* Channel values of the colour arrays the transcoding is tried on: 8-bit
\* values, and float values 0, 1/FloatDen, 1.0 and 255.0 (as numerators).
Uint8Values == {0, 1, 255}
FloatValues == {0, 1, FloatDen, 255 * FloatDen}

\* Arrays of 0..MaxVerts+1 rows <<a, a, b>>, with or without an alpha column
RowsOver(values, alpha) ==
  LET rgb == {<<a, a, b>> : a \in values, b \in values}
      rgba == {Append(r, alpha) : r \in rgb}
  IN UNION {[1..k -> rgb] \cup [1..k -> rgba] : k \in 0..(MaxVerts + 1)}

ColorArrays ==
  {Uint8Colors(rows) : rows \in RowsOver(Uint8Values, 255)}
    \cup {FloatColors(rows) : rows \in RowsOver(FloatValues, 255 * FloatDen)}

\* What decoding a mesh file can give: an exception, an empty Scene, an object
\* that is no Trimesh, or a Trimesh (a non-empty Scene is concatenated into
\* one): one with vertex colours, and one with no vertex and no colours.  A
\* file outside MeshFiles stands for the meshes of every colour array.
DecodeResults(p) ==
  IF p \in MeshFiles
    THEN {[kind |-> "error"], [kind |-> "Scene", geometry |-> <<>>], [kind |-> "PointCloud"],
          Trimesh(p, MaxVerts, Rgba8(MaxVerts)), Trimesh(p, 0, None)}
  ELSE {Trimesh(p, Len(vc.rows), vc) : vc \in ColorArrays}

\* line 268: the colours are transferred iff their length is the vertex count
HasTransferableColors(mesh_tr) ==
  /\ mesh_tr.vertex_colors # None
  /\ Len(mesh_tr.vertex_colors.rows) = mesh_tr.n_vertices

\* lines 266-274: pv.wrap(mesh_tr) and point_data['RGB']
Wrap(mesh_tr) ==
  [kind |-> "PolyData", made_by |-> "wrap", of |-> mesh_tr.path,
   n_points |-> mesh_tr.n_vertices,
   RGB |-> IF HasTransferableColors(mesh_tr) THEN ToDisplay(mesh_tr.vertex_colors)
           ELSE None]

\* lines 195-198: pv.Plane(...) sized to the image, one cell of four points
Plane(img) ==
  [kind |-> "PolyData", made_by |-> "Plane", of |-> img.size, n_points |-> 4,
   RGB |-> None]

\* ---------------------------------------------------------------- state
VARIABLES
  current_mesh_pv,          \* display buffer (line 35)
  current_mesh_tr,          \* authoring mesh (line 36)
  current_image_pil,        \* source image (line 37)
  is_2d_image_loaded,       \* image flag (line 38)
  override_color,           \* line 40
  current_opacity,          \* line 41, in hundredths
  current_filepath,         \* line 42
  selected_style,           \* the checked radio button (lines 62-74)
  opacity_slider,           \* the slider's value (line 90)
  remove_bg_button,         \* enabled flags of the controls
  save_as_action,
  mesh_color_button,
  reset_mesh_color_button,
  opacity_slider_enabled,
  scene,                    \* what the plotter shows
  status,                   \* the status line
  calls,                    \* the add_mesh calls of the last step, in order
  exported,                 \* the mesh handed to the format writer in the last step
  stack,                    \* handlers waiting in processEvents, innermost last
  done,                     \* the handler that returned in the last step, and how
  crashed,                  \* an exception left a slot: the process is gone
  plane_is_type             \* whether the library's pv.Plane is a class

vars == <<current_mesh_pv, current_mesh_tr, current_image_pil, is_2d_image_loaded,
          override_color, current_opacity, current_filepath, selected_style,
          opacity_slider, remove_bg_button, save_as_action, mesh_color_button,
          reset_mesh_color_button, opacity_slider_enabled, scene, status, calls,
          exported, stack, done, crashed, plane_is_type>>

Cleared == [kind |-> "cleared"]

\* The object's fields as one record, with the transient parts of a step:
\* orc, the outcomes of the coming add_mesh calls (TRUE: the renderer raises),
\* exc, an exception on its way up, and ret, how the handler ends.
Cur(orc) ==
  [current_mesh_pv |-> current_mesh_pv, current_mesh_tr |-> current_mesh_tr,
   current_image_pil |-> current_image_pil, is_2d_image_loaded |-> is_2d_image_loaded,
   override_color |-> override_color, current_opacity |-> current_opacity,
   current_filepath |-> current_filepath, selected_style |-> selected_style,
   opacity_slider |-> opacity_slider, remove_bg_button |-> remove_bg_button,
   save_as_action |-> save_as_action, mesh_color_button |-> mesh_color_button,
   reset_mesh_color_button |-> reset_mesh_color_button,
   opacity_slider_enabled |-> opacity_slider_enabled, scene |-> scene,
   status |-> status, calls |-> <<>>, exported |-> None, crashed |-> crashed,
   plane_is_type |-> plane_is_type, orc |-> orc, exc |-> FALSE, ret |-> "ok"]

Set(s) ==
  /\ current_mesh_pv' = s.current_mesh_pv
  /\ current_mesh_tr' = s.current_mesh_tr
  /\ current_image_pil' = s.current_image_pil
  /\ is_2d_image_loaded' = s.is_2d_image_loaded
  /\ override_color' = s.override_color
  /\ current_opacity' = s.current_opacity
  /\ current_filepath' = s.current_filepath
  /\ selected_style' = s.selected_style
  /\ opacity_slider' = s.opacity_slider
  /\ remove_bg_button' = s.remove_bg_button
  /\ save_as_action' = s.save_as_action
  /\ mesh_color_button' = s.mesh_color_button
  /\ reset_mesh_color_button' = s.reset_mesh_color_button
  /\ opacity_slider_enabled' = s.opacity_slider_enabled
  /\ scene' = s.scene
  /\ status' = s.status
  /\ calls' = s.calls
  /\ exported' = s.exported
  /\ crashed' = s.crashed
  /\ plane_is_type' = s.plane_is_type

\* The renderer's outcomes in one step: no add_mesh call raises, the first
\* raises, or the second does (no step makes a call after one that raised).
Outcomes == {<<>>, <<TRUE>>, <<FALSE, TRUE>>}

\* ------------------------------------------------------------ operations
\* lines 146-161
update_button_states(s) ==
  LET can_color_mesh == s.current_mesh_pv # None /\ ~s.is_2d_image_loaded
  IN [s EXCEPT !.remove_bg_button = s.is_2d_image_loaded,
               !.save_as_action = (s.current_mesh_tr # None),
               !.mesh_color_button = can_color_mesh,
               !.reset_mesh_color_button = can_color_mesh,
               !.opacity_slider_enabled = (s.current_mesh_pv # None)]

\* reset_viewer_state without line 367: the source image survives the reset
reset_viewer_state_keeps_image(s) ==
  update_button_states(
    [s EXCEPT !.current_mesh_pv = None, !.current_mesh_tr = None,
              !.is_2d_image_loaded = FALSE,
              !.current_filepath = None, !.override_color = None,
              !.current_opacity = 100, !.opacity_slider = 100,
              !.scene = Cleared, !.status = "Ready"])

\* lines 363-376.  setValue(100) at line 372 calls set_opacity when the value
\* changes; current_mesh_pv is None by then, so set_opacity returns at line 411.
reset_viewer_state(s) ==
  update_button_states(
    [s EXCEPT !.current_mesh_pv = None, !.current_mesh_tr = None,
              !.current_image_pil = None, !.is_2d_image_loaded = FALSE,
              !.current_filepath = None, !.override_color = None,
              !.current_opacity = 100, !.opacity_slider = 100,
              !.scene = Cleared, !.status = "Ready"])

\* lines 378-389
handle_error(s, title, reset_state) ==
  IF reset_state THEN reset_viewer_state(s)
  ELSE update_button_states([s EXCEPT !.status = title \o " failed."])

\* plotter.add_mesh: the call is recorded with the image flag, the source
\* image and the presentation state of the moment; it raises when the next
\* outcome of s.orc says so.
add_mesh(s, call) ==
  LET raises == s.orc # <<>> /\ Head(s.orc)
      seen == [call EXCEPT !.flag = s.is_2d_image_loaded, !.image = s.current_image_pil,
                           !.at = [authoring |-> s.current_mesh_tr,
                                   selected_style |-> s.selected_style,
                                   override_color |-> s.override_color,
                                   current_opacity |-> s.current_opacity],
                           !.raised = raises]
  IN [s EXCEPT !.orc = IF s.orc = <<>> THEN <<>> ELSE Tail(s.orc),
               !.calls = Append(s.calls, seen),
               !.scene = IF raises THEN s.scene
                         ELSE [kind |-> "actor", mesh |-> call.mesh, style |-> call.style,
                               show_edges |-> call.show_edges, color |-> call.color,
                               scalars |-> call.scalars, rgb |-> call.rgb,
                               opacity |-> call.opacity, texture |-> call.texture],
               !.exc = raises]

\* lines 415-420
get_selected_style(s) == s.selected_style

\* line 303: isinstance(self.current_mesh_pv, pv.Plane).  Where the library's
\* Plane is a class the test tells whether pv.Plane made the buffer; where it
\* is a factory function isinstance raises TypeError.
IsInstancePlane(s) == s.current_mesh_pv.made_by = "Plane"

\* render_params with the edges of line 324 shown in every style
render_params_always_edges(s) ==
  LET is_flat_plane == s.is_2d_image_loaded /\ IsInstancePlane(s)
      style == IF is_flat_plane THEN "surface" ELSE get_selected_style(s)
      texture_to_use == IF is_flat_plane THEN s.current_image_pil ELSE None
      plot_color == IF ~is_flat_plane THEN s.override_color ELSE None
      use_rgb == plot_color = None /\ texture_to_use = None /\ s.current_mesh_pv.RGB # None
  IN [by |-> "update_representation", mesh |-> s.current_mesh_pv, style |-> style,
      show_edges |-> ~is_flat_plane, color |-> plot_color,
      scalars |-> IF use_rgb THEN "RGB" ELSE "None", rgb |-> use_rgb,
      opacity |-> s.current_opacity, texture |-> texture_to_use,
      flag |-> FALSE, image |-> None, at |-> None, raised |-> FALSE]

\* lines 302-346: the parameters of the add_mesh call of line 349
render_params(s) ==
  LET is_flat_plane == s.is_2d_image_loaded /\ IsInstancePlane(s)
      style == IF is_flat_plane THEN "surface" ELSE get_selected_style(s)
      texture_to_use == IF is_flat_plane THEN s.current_image_pil ELSE None
      show_edges == (style = "surface") /\ ~is_flat_plane
      plot_color == IF ~is_flat_plane THEN s.override_color ELSE None
      use_rgb == plot_color = None /\ texture_to_use = None /\ s.current_mesh_pv.RGB # None
  IN [by |-> "update_representation", mesh |-> s.current_mesh_pv, style |-> style,
      show_edges |-> show_edges, color |-> plot_color,
      scalars |-> IF use_rgb THEN "RGB" ELSE "None", rgb |-> use_rgb,
      opacity |-> s.current_opacity, texture |-> texture_to_use,
      flag |-> FALSE, image |-> None, at |-> None, raised |-> FALSE]

\* update_representation that returns before line 348 when the scene already
\* shows the buffer with the parameters it would render
update_representation_skips_shown(s) ==
  IF s.current_mesh_pv = None THEN [s EXCEPT !.scene = Cleared]
  ELSE IF s.is_2d_image_loaded /\ ~s.plane_is_type THEN [s EXCEPT !.exc = TRUE]
  ELSE IF /\ s.scene # Cleared
          /\ s.scene.mesh = render_params(s).mesh
          /\ s.scene.style = render_params(s).style
          /\ s.scene.color = render_params(s).color
          /\ s.scene.opacity = render_params(s).opacity
          /\ s.scene.texture = render_params(s).texture
       THEN s
  ELSE LET r == add_mesh([s EXCEPT !.scene = Cleared], render_params(s))
       IN IF r.exc THEN handle_error([r EXCEPT !.exc = FALSE], "Render Error", TRUE)
          ELSE r

\* update_representation whose except clause (line 361) passes reset_state=False
update_representation_keeps_asset(s) ==
  IF s.current_mesh_pv = None THEN [s EXCEPT !.scene = Cleared]
  ELSE IF s.is_2d_image_loaded /\ ~s.plane_is_type THEN [s EXCEPT !.exc = TRUE]
  ELSE LET r == add_mesh([s EXCEPT !.scene = Cleared], render_params(s))
       IN IF r.exc THEN handle_error([r EXCEPT !.exc = FALSE], "Render Error", FALSE)
          ELSE r

\* lines 297-361.  exc is set when the TypeError of line 303 leaves the method.
update_representation(s) ==
  IF s.current_mesh_pv = None THEN [s EXCEPT !.scene = Cleared]
  ELSE IF s.is_2d_image_loaded /\ ~s.plane_is_type THEN [s EXCEPT !.exc = TRUE]
  ELSE LET r == add_mesh([s EXCEPT !.scene = Cleared], render_params(s))
       IN IF r.exc THEN handle_error([r EXCEPT !.exc = FALSE], "Render Error", TRUE)
          ELSE r

\* An exception that leaves a slot called by Qt: PyQt6 prints it and aborts.
slot(s) == IF s.exc THEN [s EXCEPT !.crashed = TRUE, !.exc = FALSE] ELSE s

\* lines 410-414
set_opacity(s, value) ==
  IF s.current_mesh_pv = None THEN s
  ELSE update_representation([s EXCEPT !.current_opacity = value])

\* opacity_slider.setValue(v): valueChanged (line 93) is emitted only when the
\* value changes, and set_opacity then runs inside the call.
slider_setValue(s, v) ==
  IF s.opacity_slider = v THEN s
  ELSE slot(set_opacity([s EXCEPT !.opacity_slider = v], v))

\* line 203: add_mesh(plane, texture=texture, rgb=False, scalars=None); style,
\* edges, colour and opacity are the plotter's defaults.
plane_call(s, plane) ==
  [by |-> "display_image_on_plane", mesh |-> plane, style |-> "surface",
   show_edges |-> FALSE, color |-> None, scalars |-> "None", rgb |-> FALSE,
   opacity |-> 100, texture |-> s.current_image_pil, flag |-> FALSE, image |-> None,
   at |-> None, raised |-> FALSE]

\* lines 194-217, the part of display_image_on_plane after processEvents.
\* plane_raises: building the plane or the texture raises (lines 195-200).
\* basename(None) of line 210 raises TypeError when a render failure inside
\* setValue has reset current_filepath.
display_image_on_plane(s, plane_raises) ==
  IF s.current_image_pil = None \/ plane_raises
  THEN handle_error(reset_viewer_state(s), "Display Error", TRUE)
  ELSE LET plane == Plane(s.current_image_pil)
           s1 == add_mesh([s EXCEPT !.current_mesh_pv = plane, !.scene = Cleared],
                          plane_call(s, plane))
           s2 == slider_setValue([s1 EXCEPT !.override_color = None,
                                            !.current_opacity = 100], 100)
       IN IF s1.exc
            THEN handle_error(reset_viewer_state([s1 EXCEPT !.exc = FALSE]),
                              "Display Error", TRUE)
          ELSE IF s2.crashed THEN s2
          ELSE IF s2.current_filepath = None
            THEN handle_error(reset_viewer_state(s2), "Display Error", TRUE)
          ELSE update_button_states([s2 EXCEPT !.status = "Image displayed"])

\* ---------------------------------------------------------------- frames
Frame(op, pc, file) == [op |-> op, pc |-> pc, file |-> file]
Top == stack[Len(stack)]
Pop == SubSeq(stack, 1, Len(stack) - 1)
At(op, pc) == stack # <<>> /\ Top.op = op /\ Top.pc = pc

\* Qt dispatches a control event when the application is idle or inside a
\* processEvents call of the innermost handler; every frame on the stack waits
\* in one.
CanDispatch == ~crashed
CanEnter == CanDispatch /\ Len(stack) < MaxDepth

Returned(op, result) == [op |-> op, result |-> result]
Running == Returned("-", "running")
\* how a step that ran slots ended
Ended(op, s, result) == Returned(op, IF s.crashed THEN "crashed" ELSE result)

Init ==
  /\ current_mesh_pv = None
  /\ current_mesh_tr = None
  /\ current_image_pil = None
  /\ is_2d_image_loaded = FALSE
  /\ override_color = None
  /\ current_opacity = 100
  /\ current_filepath = None
  /\ selected_style = "surface"
  /\ opacity_slider = 100
  /\ remove_bg_button = FALSE
  /\ save_as_action = FALSE
  /\ mesh_color_button = FALSE
  /\ reset_mesh_color_button = FALSE
  /\ opacity_slider_enabled = FALSE
  /\ scene = Cleared
  /\ status = "Ready"
  /\ calls = <<>>
  /\ exported = None
  /\ stack = <<>>
  /\ done = Running
  /\ crashed = FALSE
  /\ plane_is_type \in BOOLEAN

\* ------------------------------------------------------- control events
\* A radio button is clicked (lines 64, 68, 72): the button that loses the
\* check and the one that gains it both emit toggled, and both slots run
\* update_representation with the new selection.
StyleToggled ==
  /\ CanDispatch
  /\ \E st \in Styles \ {selected_style}, orc \in Outcomes :
       LET s1 == slot(update_representation([Cur(orc) EXCEPT !.selected_style = st]))
           s2 == IF s1.crashed THEN s1 ELSE slot(update_representation(s1))
       IN /\ Set(s2)
          /\ done' = Ended("update_representation", s2, "ok")
  /\ UNCHANGED stack

\* The user moves the opacity slider (line 93).
OpacitySliderMoved ==
  /\ CanDispatch
  /\ opacity_slider_enabled
  /\ \E v \in SliderValues \ {opacity_slider}, orc \in Outcomes :
       LET s1 == slider_setValue(Cur(orc), v)
       IN /\ Set(s1)
          /\ done' = Ended("set_opacity", s1, "ok")
  /\ UNCHANGED stack

\* lines 394-402.  color is what the dialog returns: a colour, or None when it
\* is cancelled (an invalid QColor).
set_mesh_color(s, color) ==
  IF s.is_2d_image_loaded
    THEN [s EXCEPT !.status = "Mesh color cannot be applied to 2D images."]
  ELSE IF color = None THEN s
  ELSE update_representation([s EXCEPT !.override_color = color])

SetMeshColor ==
  /\ CanDispatch
  /\ mesh_color_button
  /\ \E color \in Colors \cup {None}, orc \in Outcomes :
       LET s1 == slot(set_mesh_color(Cur(orc), color))
       IN /\ Set(s1)
          /\ done' = Ended("set_mesh_color", s1, "ok")
  /\ UNCHANGED stack

\* lines 403-409
reset_mesh_color(s) ==
  IF s.is_2d_image_loaded
    THEN [s EXCEPT !.status = "Mesh color cannot be applied to 2D images."]
  ELSE update_representation([s EXCEPT !.override_color = None])

ResetMeshColor ==
  /\ CanDispatch
  /\ reset_mesh_color_button
  /\ \E orc \in Outcomes :
       LET s1 == slot(reset_mesh_color(Cur(orc)))
       IN /\ Set(s1)
          /\ done' = Ended("reset_mesh_color", s1, "ok")
  /\ UNCHANGED stack

\* ------------------------------------------------------- load_3d_model
\* lines 292-295
load_3d_model_except(s) ==
  [handle_error(reset_viewer_state([s EXCEPT !.exc = FALSE]), "Load Error", TRUE)
     EXCEPT !.ret = "failed"]

\* load_3d_model without line 281: the colour override survives the load
load_3d_model_keeps_override(s, file, decoded) ==
  IF decoded.kind # "Trimesh" THEN load_3d_model_except(s)
  ELSE LET mesh_pv == Wrap(decoded)
           s1 == [s EXCEPT !.current_mesh_tr = decoded, !.current_mesh_pv = mesh_pv,
                           !.current_image_pil = None, !.is_2d_image_loaded = FALSE,
                           !.current_filepath = Path(file),
                           !.current_opacity = 100]
           s2 == slider_setValue(s1, 100)
           s3 == update_representation([s2 EXCEPT !.scene = Cleared])
       IN IF mesh_pv.RGB = Raised THEN load_3d_model_except(s)
          ELSE IF s2.crashed THEN s2
          ELSE IF s3.exc \/ s3.current_filepath = None THEN load_3d_model_except(s3)
          ELSE update_button_states([s3 EXCEPT !.status = "Loaded"])

\* lines 254-295, the part of load_3d_model after processEvents; decoded is
\* what trimesh.load gives for the file.  basename(None) of line 288 raises
\* TypeError when a render failure has reset current_filepath.
load_3d_model(s, file, decoded) ==
  IF decoded.kind # "Trimesh" THEN load_3d_model_except(s)
  ELSE LET mesh_pv == Wrap(decoded)
           s1 == [s EXCEPT !.current_mesh_tr = decoded, !.current_mesh_pv = mesh_pv,
                           !.current_image_pil = None, !.is_2d_image_loaded = FALSE,
                           !.current_filepath = Path(file), !.override_color = None,
                           !.current_opacity = 100]
           s2 == slider_setValue(s1, 100)
           s3 == update_representation([s2 EXCEPT !.scene = Cleared])
       IN IF mesh_pv.RGB = Raised THEN load_3d_model_except(s)
          ELSE IF s2.crashed THEN s2
          ELSE IF s3.exc \/ s3.current_filepath = None THEN load_3d_model_except(s3)
          ELSE update_button_states([s3 EXCEPT !.status = "Loaded"])

\* Load3DStart whose cancelled dialog (lines 249-251) resets the viewer
Load3DStart_resets_on_cancel ==
  /\ CanEnter
  /\ \/ /\ Set([reset_viewer_state(Cur(<<>>)) EXCEPT !.status = "File load cancelled."])
        /\ done' = Returned("load_3d_model", "cancelled")
        /\ UNCHANGED stack
     \/ \E p \in MeshFiles :
          /\ Set([Cur(<<>>) EXCEPT !.status = "Loading"])
          /\ stack' = Append(stack, Frame("load_3d_model", "l253", p))
          /\ done' = Running

\* lines 241-253: the dialog, then processEvents
Load3DStart ==
  /\ CanEnter
  /\ \/ /\ status' = "File load cancelled."
        /\ done' = Returned("load_3d_model", "cancelled")
        /\ UNCHANGED stack
     \/ \E p \in MeshFiles :
          /\ status' = "Loading"
          /\ stack' = Append(stack, Frame("load_3d_model", "l253", p))
          /\ done' = Running
  /\ calls' = <<>>
  /\ exported' = None
  /\ UNCHANGED <<current_mesh_pv, current_mesh_tr, current_image_pil,
                 is_2d_image_loaded, override_color, current_opacity,
                 current_filepath, selected_style, opacity_slider, remove_bg_button,
                 save_as_action, mesh_color_button, reset_mesh_color_button,
                 opacity_slider_enabled, scene, crashed, plane_is_type>>

Load3DBody ==
  /\ ~crashed
  /\ At("load_3d_model", "l253")
  /\ \E decoded \in DecodeResults(Top.file), orc \in Outcomes :
       LET s1 == load_3d_model(Cur(orc), Top.file, decoded)
       IN /\ Set(s1)
          /\ done' = Ended("load_3d_model", s1, s1.ret)
  /\ stack' = Pop

\* ------------------------------------------------------- load_2d_image
\* lines 184-187
load_2d_image_except(s) ==
  [handle_error(reset_viewer_state([s EXCEPT !.exc = FALSE]), "Image Load Error", TRUE)
     EXCEPT !.ret = "failed"]

\* lines 163-173: the dialog, then processEvents
Load2DStart ==
  /\ CanEnter
  /\ \/ /\ status' = "Image load cancelled."
        /\ done' = Returned("load_2d_image", "cancelled")
        /\ UNCHANGED stack
     \/ \E p \in ImageFiles :
          /\ status' = "Loading image"
          /\ stack' = Append(stack, Frame("load_2d_image", "l173", p))
          /\ done' = Running
  /\ calls' = <<>>
  /\ exported' = None
  /\ UNCHANGED <<current_mesh_pv, current_mesh_tr, current_image_pil,
                 is_2d_image_loaded, override_color, current_opacity,
                 current_filepath, selected_style, opacity_slider, remove_bg_button,
                 save_as_action, mesh_color_button, reset_mesh_color_button,
                 opacity_slider_enabled, scene, crashed, plane_is_type>>

\* load_2d_image without line 180: the authoring mesh survives the image load
load_2d_image_decode_keeps_mesh(s, file) ==
  [s EXCEPT !.current_image_pil = Image(file), !.current_filepath = Path(file),
            !.is_2d_image_loaded = TRUE,
            !.status = "Displaying image on plane..."]

\* lines 175-181 and 189-193: the decode, the four assignments, and
\* display_image_on_plane up to its processEvents
load_2d_image_decode(s, file) ==
  [s EXCEPT !.current_image_pil = Image(file), !.current_filepath = Path(file),
            !.is_2d_image_loaded = TRUE, !.current_mesh_tr = None,
            !.status = "Displaying image on plane..."]

Load2DDecode ==
  /\ ~crashed
  /\ At("load_2d_image", "l173")
  /\ \/ \* Image.open raises
        /\ Set(load_2d_image_except(Cur(<<>>)))
        /\ done' = Returned("load_2d_image", "failed")
        /\ stack' = Pop
     \/ /\ Set(load_2d_image_decode(Cur(<<>>), Top.file))
        /\ done' = Running
        /\ stack' = Append(Pop, Frame("load_2d_image", "l193", Top.file))

\* lines 181-187, from the return of processEvents in display_image_on_plane.
\* basename(None) of line 182 raises TypeError when the display failed and
\* reset current_filepath.
load_2d_image_finish(s, plane_raises) ==
  LET s1 == display_image_on_plane(s, plane_raises)
  IN IF s1.crashed THEN s1
     ELSE IF s1.current_filepath = None THEN load_2d_image_except(s1)
     ELSE update_button_states([s1 EXCEPT !.status = "Loaded image"])

Load2DFinish ==
  /\ ~crashed
  /\ At("load_2d_image", "l193")
  /\ \E plane_raises \in BOOLEAN, orc \in Outcomes :
       LET s1 == load_2d_image_finish(Cur(orc), plane_raises)
       IN /\ Set(s1)
          /\ done' = Ended("load_2d_image", s1, s1.ret)
  /\ stack' = Pop

\* ---------------------------------------------- remove_image_background
\* lines 219-224: the guard, then processEvents
RemoveBgStart ==
  /\ CanEnter
  /\ remove_bg_button
  /\ IF ~is_2d_image_loaded \/ current_image_pil = None
       THEN /\ status' = "No 2D image loaded to remove background from."
            /\ done' = Returned("remove_image_background", "refused")
            /\ UNCHANGED stack
       ELSE /\ status' = "Removing background (using rembg)..."
            /\ stack' = Append(stack, Frame("remove_image_background", "l224", ""))
            /\ done' = Running
  /\ calls' = <<>>
  /\ exported' = None
  /\ UNCHANGED <<current_mesh_pv, current_mesh_tr, current_image_pil,
                 is_2d_image_loaded, override_color, current_opacity,
                 current_filepath, selected_style, opacity_slider, remove_bg_button,
                 save_as_action, mesh_color_button, reset_mesh_color_button,
                 opacity_slider_enabled, scene, crashed, plane_is_type>>

\* lines 237-239
remove_image_background_except(s) ==
  [handle_error(s, "Background Removal Error", FALSE) EXCEPT !.ret = "failed"]

\* lines 225-234 and 189-193: removal, re-decode, the assignment of the
\* result, and display_image_on_plane up to its processEvents.
\* removal_raises: rembg or the re-decode of its result raises.
remove_image_background_call(s, removal_raises) ==
  IF s.current_image_pil = None \/ removal_raises
    THEN remove_image_background_except(s)
  ELSE [s EXCEPT !.current_image_pil = RemovedBackground(s.current_image_pil),
                 !.status = "Displaying image on plane..."]

RemoveBgCall ==
  /\ ~crashed
  /\ At("remove_image_background", "l224")
  /\ \E removal_raises \in BOOLEAN :
       LET s1 == remove_image_background_call(Cur(<<>>), removal_raises)
       IN /\ Set(s1)
          /\ IF s1.ret = "failed"
               THEN /\ done' = Returned("remove_image_background", "failed")
                    /\ stack' = Pop
               ELSE /\ done' = Running
                    /\ stack' = Append(Pop, Frame("remove_image_background", "l193", ""))

\* lines 234-235, from the return of processEvents in display_image_on_plane:
\* the display, which handles its own failure, then the status message
remove_image_background_finish(s, plane_raises) ==
  LET s1 == display_image_on_plane(s, plane_raises)
  IN IF s1.crashed THEN s1
     ELSE [s1 EXCEPT !.status = "Background removed.",
                     !.ret = IF s1.current_mesh_pv = None THEN "display_failed" ELSE "ok"]

RemoveBgFinish ==
  /\ ~crashed
  /\ At("remove_image_background", "l193")
  /\ \E plane_raises \in BOOLEAN, orc \in Outcomes :
       LET s1 == remove_image_background_finish(Cur(orc), plane_raises)
       IN /\ Set(s1)
          /\ done' = Ended("remove_image_background", s1, s1.ret)
  /\ stack' = Pop

\* ---------------------------------------------------------- save_file_as
\* colors_to_export whose alpha column (line 514) is 0 instead of 255
colors_to_export_transparent(s) ==
  IF s.current_mesh_pv # None /\ s.current_mesh_pv.RGB # None
    THEN LET colors_pv == s.current_mesh_pv.RGB.rows
         IN IF Len(colors_pv) = s.current_mesh_tr.n_vertices
              THEN Uint8Colors([i \in 1..Len(colors_pv) |->
                                  IF Len(colors_pv[i]) = 3 THEN Append(colors_pv[i], 0)
                                  ELSE colors_pv[i]])
            ELSE None
  ELSE None

\* lines 504-520: the display colours as RGBA, or None
colors_to_export(s) ==
  IF s.current_mesh_pv # None /\ s.current_mesh_pv.RGB # None
    THEN LET colors_pv == s.current_mesh_pv.RGB.rows
         IN IF Len(colors_pv) = s.current_mesh_tr.n_vertices
              THEN Uint8Colors([i \in 1..Len(colors_pv) |->
                                  IF Len(colors_pv[i]) = 3 THEN Append(colors_pv[i], 255)
                                  ELSE colors_pv[i]])
            ELSE None
  ELSE None

\* mesh_to_export without the tests of lines 508 and 526: the display colours
\* are stamped whenever the buffer has them
mesh_to_export_always_stamps(s) ==
  IF s.current_mesh_pv # None /\ s.current_mesh_pv.RGB # None
    THEN [s.current_mesh_tr EXCEPT !.vertex_colors =
            Uint8Colors([i \in 1..Len(s.current_mesh_pv.RGB.rows) |->
                           Append(s.current_mesh_pv.RGB.rows[i], 255)])]
  ELSE s.current_mesh_tr

\* lines 523-529: a copy of the authoring mesh, stamped with the colours
mesh_to_export(s) ==
  LET colors == colors_to_export(s)
  IN IF /\ colors # None
        /\ Len(colors.rows) = s.current_mesh_tr.n_vertices
        /\ \A i \in 1..Len(colors.rows) : Len(colors.rows[i]) = 4
       THEN [s.current_mesh_tr EXCEPT !.vertex_colors = colors]
     ELSE s.current_mesh_tr

\* save_file_as whose except clause resets the viewer (reset_state=True)
save_file_as_resets_on_failure(s, writer_raises) ==
  IF s.current_mesh_tr = None \/ writer_raises
    THEN [handle_error(s, "Save Error", TRUE) EXCEPT !.ret = "failed"]
  ELSE [s EXCEPT !.exported = mesh_to_export(s),
                 !.status = "Mesh saved successfully"]

\* lines 502-540, the part of save_file_as after processEvents.  With no
\* authoring mesh left, line 508 or line 523 raises AttributeError.
save_file_as(s, writer_raises) ==
  IF s.current_mesh_tr = None \/ writer_raises
    THEN [handle_error(s, "Save Error", FALSE) EXCEPT !.ret = "failed"]
  ELSE [s EXCEPT !.exported = mesh_to_export(s),
                 !.status = "Mesh saved successfully"]

\* SaveStart without the guard of lines 467-470: the dialog opens whether or
\* not an authoring mesh exists
SaveStart_unguarded ==
  /\ CanEnter
  /\ save_as_action
  /\ \/ /\ status' = "Save As cancelled."
        /\ done' = Returned("save_file_as", "cancelled")
        /\ UNCHANGED stack
     \/ \E p \in SaveFiles :
          /\ status' = "Saving mesh"
          /\ stack' = Append(stack, Frame("save_file_as", "l501", p))
          /\ done' = Running
  /\ calls' = <<>>
  /\ exported' = None
  /\ UNCHANGED <<current_mesh_pv, current_mesh_tr, current_image_pil,
                 is_2d_image_loaded, override_color, current_opacity,
                 current_filepath, selected_style, opacity_slider, remove_bg_button,
                 save_as_action, mesh_color_button, reset_mesh_color_button,
                 opacity_slider_enabled, scene, crashed, plane_is_type>>

\* lines 466-501: the guard, the dialog, then processEvents
SaveStart ==
  /\ CanEnter
  /\ save_as_action
  /\ IF current_mesh_tr = None
       THEN /\ status' = "No original 3D model loaded to save."
            /\ done' = Returned("save_file_as", "refused")
            /\ UNCHANGED stack
       ELSE \/ /\ status' = "Save As cancelled."
               /\ done' = Returned("save_file_as", "cancelled")
               /\ UNCHANGED stack
            \/ \E p \in SaveFiles :
                 /\ status' = "Saving mesh"
                 /\ stack' = Append(stack, Frame("save_file_as", "l501", p))
                 /\ done' = Running
  /\ calls' = <<>>
  /\ exported' = None
  /\ UNCHANGED <<current_mesh_pv, current_mesh_tr, current_image_pil,
                 is_2d_image_loaded, override_color, current_opacity,
                 current_filepath, selected_style, opacity_slider, remove_bg_button,
                 save_as_action, mesh_color_button, reset_mesh_color_button,
                 opacity_slider_enabled, scene, crashed, plane_is_type>>

SaveBody ==
  /\ ~crashed
  /\ At("save_file_as", "l501")
  /\ \E writer_raises \in BOOLEAN :
       LET s1 == save_file_as(Cur(<<>>), writer_raises)
       IN /\ Set(s1)
          /\ done' = Returned("save_file_as", s1.ret)
  /\ stack' = Pop

\* --------------------------------------------------------- take_screenshot
\* lines 421-464.  raised: plotter.screenshot raises (lines 454-456); otherwise
\* the dialog was cancelled or the picture was written, and the status line
\* says which.  The scene itself is not changed.
take_screenshot(s, raised) ==
  IF raised THEN handle_error(s, "Screenshot Error", FALSE)
  ELSE [s EXCEPT !.status = "Screenshot saved or cancelled."]

TakeScreenshot ==
  /\ CanDispatch
  /\ \E raised \in BOOLEAN :
       /\ Set(take_screenshot(Cur(<<>>), raised))
       /\ done' = Returned("take_screenshot", IF raised THEN "failed" ELSE "ok")
  /\ UNCHANGED stack

\* --------------------------------------------------------- specification
\* set_background_color (lines 391-393) changes the plotter's background alone
\* and is left out.
Next ==
  \/ StyleToggled
  \/ OpacitySliderMoved
  \/ SetMeshColor
  \/ ResetMeshColor
  \/ Load3DStart
  \/ Load3DBody
  \/ Load2DStart
  \/ Load2DDecode
  \/ Load2DFinish
  \/ RemoveBgStart
  \/ RemoveBgCall
  \/ RemoveBgFinish
  \/ SaveStart
  \/ SaveBody
  \/ TakeScreenshot

Spec == Init /\ [][Next]_vars

\* ------------------------------------------------- the export of colours
\* The colour logic of save_file_as (lines 504-529) is a function of the
\* display buffer's RGB array and the authoring mesh's vertex count.  The
\* loads only ever pair a buffer with the mesh it was wrapped from, so ExportSpec
\* draws the two independently and runs save_file_as on every pair.
RgbRows == {<<200, 100, 1>>, <<0, 0, 0>>}

\* point_data['RGB'] of the display buffer: absent, or 0..MaxVerts+1 rows
DisplayColors ==
  {None} \cup {Uint8Colors(rows) : rows \in UNION {[1..k -> RgbRows] : k \in 0..(MaxVerts + 1)}}

AuthoringMeshes ==
  UNION {{Trimesh("model.ply", n, None), Trimesh("model.ply", n, Rgba8(n))} : n \in 0..MaxVerts}

ExportInit ==
  /\ current_mesh_tr \in AuthoringMeshes
  /\ current_mesh_pv \in {[Wrap(current_mesh_tr) EXCEPT !.RGB = c] : c \in DisplayColors}
  /\ current_image_pil = None
  /\ is_2d_image_loaded = FALSE
  /\ override_color = None
  /\ current_opacity = 100
  /\ current_filepath = Path("model.ply")
  /\ selected_style = "surface"
  /\ opacity_slider = 100
  /\ remove_bg_button = FALSE
  /\ save_as_action = TRUE
  /\ mesh_color_button = TRUE
  /\ reset_mesh_color_button = TRUE
  /\ opacity_slider_enabled = TRUE
  /\ scene = Cleared
  /\ status = "Loaded"
  /\ calls = <<>>
  /\ exported = None
  /\ stack = <<>>
  /\ done = Running
  /\ crashed = FALSE
  /\ plane_is_type \in BOOLEAN

ExportNext ==
  \/ SaveStart
  \/ SaveBody

ExportSpec == ExportInit /\ [][ExportNext]_vars

\* --------------------------------------------- the transcoding of colours
\* load_3d_model run on the meshes of every colour array: the load is inside
\* processEvents (line 253) with a file that stands for all of them.
TranscodeInit ==
  /\ current_mesh_pv = None
  /\ current_mesh_tr = None
  /\ current_image_pil = None
  /\ is_2d_image_loaded = FALSE
  /\ override_color = None
  /\ current_opacity = 100
  /\ current_filepath = None
  /\ selected_style = "surface"
  /\ opacity_slider = 100
  /\ remove_bg_button = FALSE
  /\ save_as_action = FALSE
  /\ mesh_color_button = FALSE
  /\ reset_mesh_color_button = FALSE
  /\ opacity_slider_enabled = FALSE
  /\ scene = Cleared
  /\ status = "Loading"
  /\ calls = <<>>
  /\ exported = None
  /\ stack = <<Frame("load_3d_model", "l253", "colors.ply")>>
  /\ done = Running
  /\ crashed = FALSE
  /\ plane_is_type \in BOOLEAN

TranscodeNext == Load3DBody

TranscodeSpec == TranscodeInit /\ [][TranscodeNext]_vars

\* ------------------------------------------------------------------------
\* The shapes of the asset state
Empty ==
  /\ current_mesh_pv = None
  /\ current_mesh_tr = None
  /\ current_image_pil = None
  /\ ~is_2d_image_loaded

Mesh3D ==
  /\ current_mesh_pv # None
  /\ current_mesh_tr # None
  /\ current_image_pil = None
  /\ ~is_2d_image_loaded

TexturedPlane ==
  /\ current_mesh_pv # None
  /\ current_image_pil # None
  /\ current_mesh_tr = None
  /\ is_2d_image_loaded

\* No handler is in flight.
Idle == stack = <<>> /\ ~crashed

Loads == {"load_3d_model", "load_2d_image"}

\* C1: after load_3d_model or load_2d_image ends through its except clause
\* (decode, geometry check, plane construction or first render failed) the
\* display buffer, the authoring mesh and the source image are absent and the
\* image flag is false.
C1_FailedLoadLeavesNoAsset ==
  (done.op \in Loads /\ done.result = "failed") => Empty

\* A load that failed at the render of the asset it had already made current.
C1_Witness ==
  /\ done.op = "load_3d_model"
  /\ done.result = "failed"
  /\ calls # <<>>
  /\ Empty

\* A render call belongs to one asset: a plane built for the source image
\* with the image flag set, or a mesh with no source image and the flag clear.
OneAsset(c) ==
  IF c.mesh.made_by = "Plane"
    THEN c.flag /\ c.image # None /\ c.mesh = Plane(c.image)
  ELSE ~c.flag /\ c.image = None

C3_AssetShape ==
  Idle => (Empty \/ Mesh3D \/ TexturedPlane)

\* An image load has returned, no handler is in flight, and the image is current.
C3_Witness ==
  /\ Idle
  /\ TexturedPlane
  /\ done = Returned("load_2d_image", "ok")

\* The availability table of the controls
FlagsMatchTable ==
  /\ remove_bg_button <=> TexturedPlane
  /\ save_as_action <=> (current_mesh_tr # None)
  /\ mesh_color_button <=> Mesh3D
  /\ reset_mesh_color_button <=> Mesh3D
  /\ opacity_slider_enabled <=> (current_mesh_pv # None)

\* C4: after every handler that has returned, the control flags match the
\* availability table.
C4_FlagsAfterEveryOperation ==
  (done.result # "running" /\ ~crashed) => FlagsMatchTable

\* The same with no handler in flight.
C4_FlagsWhenIdle ==
  Idle => FlagsMatchTable

\* C5: after every successful load the colour override is absent and the
\* opacity is 1.0, with the slider at 100.
C5_LoadResetsColorAndOpacity ==
  (done.op \in Loads /\ done.result = "ok") =>
    /\ override_color = None
    /\ current_opacity = 100
    /\ opacity_slider = 100

\* A successful load whose setValue(100) moved the slider: set_opacity made
\* a render call of its own before the load's.
C5_Witness ==
  /\ done = Returned("load_3d_model", "ok")
  /\ Len(calls) = 2
  /\ override_color = None
  /\ current_opacity = 100

\* C6: after every successful load the selected style is Surface.
C6_LoadResetsStyle ==
  (done.op \in Loads /\ done.result = "ok") => selected_style = "surface"

\* The render calls update_representation made in the last step
UpdateCalls == {i \in 1..Len(calls) : calls[i].by = "update_representation"}

\* The viewer held a Mesh3D when call c was made.
OnMesh3D(c) == ~c.flag /\ c.image = None /\ c.at.authoring # None

\* The viewer held a TexturedPlane when call c was made.
OnTexturedPlane(c) ==
  c.flag /\ c.image # None /\ c.at.authoring = None /\ c.mesh.made_by = "Plane"

\* C7: for a Mesh3D the render call of update_representation has the selected
\* style, edges iff the style is Surface, the override as colour when one is
\* set, the vertex colours as scalars iff no override is set and the buffer
\* has them, no texture, and the current opacity.
C7_MeshRenderParams ==
  \A i \in UpdateCalls :
    LET c == calls[i]
        vertex_color == c.at.override_color = None /\ c.mesh.RGB # None
    IN OnMesh3D(c) =>
         /\ c.style = c.at.selected_style
         /\ c.show_edges <=> (c.at.selected_style = "surface")
         /\ c.color = c.at.override_color
         /\ c.scalars = (IF vertex_color THEN "RGB" ELSE "None")
         /\ c.rgb <=> vertex_color
         /\ c.texture = None
         /\ c.opacity = c.at.current_opacity

\* A wireframe render of a mesh with vertex colours and an override set.
C7_Witness ==
  \E i \in UpdateCalls :
    /\ OnMesh3D(calls[i])
    /\ calls[i].mesh.RGB # None
    /\ calls[i].at.override_color # None
    /\ calls[i].style = "wireframe"
    /\ calls[i].opacity = 50

\* The parameters the image plane is to be rendered with
PlaneParams(c) ==
  /\ c.style = "surface"
  /\ ~c.show_edges
  /\ c.color = None
  /\ c.scalars = "None"
  /\ ~c.rgb
  /\ c.texture = c.image

\* C8: a style change on a TexturedPlane makes update_representation render
\* the plane, both times, as a Surface without edges, colour or scalars and
\* with the texture of the source image.
C8_PlaneRenderParams ==
  (done.op = "update_representation" /\ TexturedPlane /\ stack = <<>>) =>
    /\ Len(calls) = 2
    /\ \A i \in UpdateCalls : PlaneParams(calls[i])

\* Where update_representation does render a TexturedPlane, it renders it so.
C8_WherePlaneIsRendered ==
  \A i \in UpdateCalls : OnTexturedPlane(calls[i]) => PlaneParams(calls[i])

\* The parameters of a render call, without what the model notes beside them
Params(c) ==
  [mesh |-> c.mesh, style |-> c.style, show_edges |-> c.show_edges, color |-> c.color,
   scalars |-> c.scalars, rgb |-> c.rgb, opacity |-> c.opacity, texture |-> c.texture]

\* The asset and the presentation state
AssetState ==
  <<current_mesh_pv, current_mesh_tr, current_image_pil, is_2d_image_loaded,
    current_filepath>>
PresentationState == <<override_color, current_opacity, opacity_slider>>
ControlFlags ==
  <<remove_bg_button, save_as_action, mesh_color_button, reset_mesh_color_button,
    opacity_slider_enabled>>

C10_SaveLeavesStateAlone ==
  [][(SaveStart \/ SaveBody) =>
       /\ AssetState' = AssetState
       /\ PresentationState' = PresentationState
       /\ ControlFlags' = ControlFlags
       /\ selected_style' = selected_style
       /\ scene' = scene]_vars

\* An export that failed in the writer with a coloured mesh current.
C10_Witness ==
  /\ done = Returned("save_file_as", "failed")
  /\ Mesh3D
  /\ current_mesh_pv.RGB # None
  /\ status = "Save Error failed."

\* C11: a background removal that failed (in the removal collaborator, in the
\* re-decode of its result, or in the rebuild of the plane) leaves the image
\* plane current: the viewer is not reset to the empty state.  (Stated for a
\* removal that was not itself started inside another handler.)
C11_FailedRemovalKeepsAsset ==
  (/\ done.op = "remove_image_background"
   /\ done.result \in {"failed", "display_failed"}
   /\ stack = <<>>)
    => TexturedPlane

\* The display colours are present / are as many as the authoring vertices.
ColorPresent == current_mesh_pv # None /\ current_mesh_pv.RGB # None
ColorFits ==
  ColorPresent /\ Len(current_mesh_pv.RGB.rows) = current_mesh_tr.n_vertices

\* C12: the exported copy carries the display colours (as RGBA) iff they are
\* present and as many as the authoring vertices, and is the authoring mesh
\* as it is otherwise; an export whose colours do not fit is no error: with
\* a writer that does not fail it ends as a successful save.
C12_ExportColors ==
  /\ done = Returned("save_file_as", "ok") =>
        /\ exported.n_vertices = current_mesh_tr.n_vertices
        /\ ColorFits =>
              /\ Len(exported.vertex_colors.rows) = current_mesh_tr.n_vertices
              /\ \A i \in 1..Len(exported.vertex_colors.rows) :
                    SubSeq(exported.vertex_colors.rows[i], 1, 3) = current_mesh_pv.RGB.rows[i]
        /\ ~ColorFits => exported = current_mesh_tr
  /\ (At("save_file_as", "l501") /\ current_mesh_tr # None /\ ColorPresent /\ ~ColorFits) =>
        LET r == save_file_as(Cur(<<>>), FALSE)
        IN r.ret = "ok" /\ r.status = "Mesh saved successfully" /\ r.exported = current_mesh_tr

\* A successful export of an uncoloured mesh whose buffer has more colours
\* than the mesh has vertices.
C12_Witness ==
  /\ done = Returned("save_file_as", "ok")
  /\ ColorPresent
  /\ Len(current_mesh_pv.RGB.rows) > current_mesh_tr.n_vertices
  /\ current_mesh_tr.vertex_colors = None
  /\ exported = current_mesh_tr

\* C13: after a mesh of N vertices with 8-bit vertex colours was loaded and
\* exported, the exported copy has N vertices and N colour rows of 4
\* channels; the first three are the display RGB, which is the source RGB,
\* and the fourth is 255; loading the exported mesh again gives N points and
\* the same display RGB.
C13_ColorRoundTrip ==
  (/\ done = Returned("save_file_as", "ok")
   /\ HasTransferableColors(current_mesh_tr)
   /\ current_mesh_tr.vertex_colors.dtype = "uint8") =>
    LET N == current_mesh_tr.n_vertices
        src == current_mesh_tr.vertex_colors.rows
        rgb == current_mesh_pv.RGB.rows
        out == exported.vertex_colors.rows
        again == load_3d_model(Cur(<<>>), "saved.ply", [exported EXCEPT !.path = "saved.ply"])
    IN /\ exported.n_vertices = N
       /\ Len(out) = N /\ Len(rgb) = N
       /\ \A i \in 1..N :
            /\ Len(out[i]) = 4
            /\ SubSeq(out[i], 1, 3) = rgb[i]
            /\ rgb[i] = SubSeq(src[i], 1, 3)
            /\ out[i][4] = 255
       /\ again.ret = "ok"
       /\ again.current_mesh_pv.n_points = N
       /\ again.current_mesh_pv.RGB = current_mesh_pv.RGB

\* A coloured mesh with at least one vertex was loaded and exported.
C13_Witness ==
  /\ done = Returned("save_file_as", "ok")
  /\ HasTransferableColors(current_mesh_tr)
  /\ current_mesh_tr.n_vertices >= 1
  /\ exported.vertex_colors # None
  /\ current_mesh_pv.made_by = "wrap"
  /\ current_mesh_pv.RGB # None

\* The authoring colours of the loaded mesh without their alpha column
Rows3 ==
  LET rows == current_mesh_tr.vertex_colors.rows
  IN IF rows # <<>> /\ Len(rows[1]) = 4 THEN DropAlpha(rows) ELSE rows

\* 1.0 in the units of the authoring colours
One == IF current_mesh_tr.vertex_colors.dtype = "uint8" THEN 1 ELSE FloatDen

\* out is v truncated to a whole number, v in the units of the authoring colours
TruncatedTo(out, v) == out * One <= v /\ v < (out + 1) * One

Transcoded ==
  /\ done = Returned("load_3d_model", "ok")
  /\ current_mesh_tr.vertex_colors # None
  /\ current_mesh_tr.vertex_colors.rows # <<>>

\* The display colours have the rows of the authoring colours, 3 channels each.
SameShape ==
  /\ Len(current_mesh_pv.RGB.rows) = Len(Rows3)
  /\ \A i \in 1..Len(Rows3) : Len(current_mesh_pv.RGB.rows[i]) = 3

\* C14 as stated: the maximum alone decides, whatever the element type: an
\* array whose maximum is at most 1 is multiplied by 255 and truncated, one
\* whose maximum exceeds 1 is kept, and a 4th channel is dropped.
C14_MaxAloneDecides ==
  Transcoded =>
    /\ SameShape
    /\ \A i \in 1..Len(Rows3) : \A j \in 1..3 :
         IF ArrayMax(Rows3) <= One
           THEN TruncatedTo(current_mesh_pv.RGB.rows[i][j], 255 * Rows3[i][j])
         ELSE TruncatedTo(current_mesh_pv.RGB.rows[i][j], Rows3[i][j])

\* C14, amended: an 8-bit array is kept value for value whatever its maximum;
\* an array of another element type is multiplied by 255 and truncated when
\* its maximum is at most 1, and truncated as it is when its maximum exceeds
\* 1; a 4th channel is dropped before the maximum is taken.
C14_TypeThenMax ==
  Transcoded =>
    /\ SameShape
    /\ current_mesh_pv.RGB.dtype = "uint8"
    /\ \A i \in 1..Len(Rows3) : \A j \in 1..3 :
         IF current_mesh_tr.vertex_colors.dtype = "uint8"
           THEN current_mesh_pv.RGB.rows[i][j] = Rows3[i][j]
         ELSE IF ArrayMax(Rows3) <= One
           THEN TruncatedTo(current_mesh_pv.RGB.rows[i][j], 255 * Rows3[i][j])
         ELSE TruncatedTo(current_mesh_pv.RGB.rows[i][j], Rows3[i][j])

\* The float array [[0,0,0],[1,1,1]], with an alpha column, was loaded as
\* [[0,0,0],[255,255,255]].
C14_Witness ==
  /\ done = Returned("load_3d_model", "ok")
  /\ current_mesh_tr.vertex_colors =
       FloatColors(<<<<0, 0, 0, 255 * FloatDen>>,
                     <<FloatDen, FloatDen, FloatDen, 255 * FloatDen>>>>)
  /\ current_mesh_pv.RGB = Uint8Colors(<<<<0, 0, 0>>, <<255, 255, 255>>>>)

\* C15: a buffer of zero vertices is never passed to add_mesh, and a
\* load_3d_model that has returned without failure left a buffer with vertices.
C15_ZeroVertexLoadFails ==
  /\ \A i \in 1..Len(calls) : calls[i].mesh.n_points > 0
  /\ done = Returned("load_3d_model", "ok") => current_mesh_pv.n_points > 0

\* The display buffer has vertex colours and a source image is current.
BothColorSources ==
  /\ current_mesh_pv # None
  /\ current_mesh_pv.RGB # None
  /\ current_image_pil # None

\* C16: in no state that a load, background removal, control change or export
\* has returned to does the current asset have both vertex colours on its
\* display buffer and a source image.
C16_OneColorSource ==
  (done # Running /\ ~crashed) => ~BothColorSources

\* With no handler in flight the asset has one colour source at most.
C16_OneColorSourceWhenIdle ==
  Idle => ~BothColorSources

\* C17: save_file_as called with no authoring mesh returns at once, refused:
\* no export is started, nothing is handed to the format writer, and the
\* asset and the presentation state stay as they are.
C17_SaveRefusedWithoutMesh ==
  [][(SaveStart /\ current_mesh_tr = None) =>
       /\ done' = Returned("save_file_as", "refused")
       /\ stack' = stack
       /\ exported' = None
       /\ status' = "No original 3D model loaded to save."
       /\ AssetState' = AssetState
       /\ PresentationState' = PresentationState
       /\ selected_style' = selected_style]_vars

\* Save As was refused while an image was being loaded over a mesh.
C17_Witness ==
  /\ done = Returned("save_file_as", "refused")
  /\ current_mesh_tr = None
  /\ is_2d_image_loaded
  /\ exported = None

\* The handlers that read or change the asset or the presentation state
AssetHandlers ==
  {"load_3d_model", "load_2d_image", "remove_image_background", "save_file_as",
   "update_representation", "set_opacity", "set_mesh_color", "reset_mesh_color"}

\* C18: while a load, a background removal or an export is in flight, no
\* other handler of the asset or presentation state starts: never are two
\* in flight, and none returns while another still waits.
C18_Serialized ==
  /\ Len(stack) <= 1
  /\ (stack # <<>> /\ done # Running) => done.op \notin AssetHandlers

\* C19: after remove_image_background has returned without failure the asset
\* is a TexturedPlane built for the image the removal returned, there is no
\* authoring mesh, save-as is disabled and remove-background enabled.
C19_RemovalKeepsTexturedPlane ==
  done = Returned("remove_image_background", "ok") =>
    /\ TexturedPlane
    /\ current_image_pil.bg_removed
    /\ current_mesh_pv = Plane(current_image_pil)
    /\ current_mesh_tr = None
    /\ ~save_as_action
    /\ remove_bg_button

\* The handlers C20 is about
SceneHandlers ==
  {"update_representation", "set_opacity", "set_mesh_color", "reset_mesh_color",
   "load_3d_model", "load_2d_image", "remove_image_background"}

\* What the scene is to show for the current asset and presentation state
SceneOfState ==
  LET plane == is_2d_image_loaded /\ current_mesh_pv.made_by = "Plane"
      colored == ~plane /\ override_color = None /\ current_mesh_pv.RGB # None
  IN [kind |-> "actor", mesh |-> current_mesh_pv,
      style |-> IF plane THEN "surface" ELSE selected_style,
      show_edges |-> ~plane /\ selected_style = "surface",
      color |-> IF plane THEN None ELSE override_color,
      scalars |-> IF colored THEN "RGB" ELSE "None",
      rgb |-> colored,
      opacity |-> current_opacity,
      texture |-> IF plane THEN current_image_pil ELSE None]

\* C20: after every style, colour, reset-colour or opacity change, load or
\* background removal that has returned, the scene shows the current display
\* buffer with the parameters of the current asset and presentation state,
\* and with no display buffer current the scene is cleared.
C20_SceneFollowsState ==
  /\ (done.op \in SceneHandlers /\ done.result \in {"ok", "failed", "display_failed"}) =>
        IF current_mesh_pv # None THEN scene = SceneOfState ELSE scene = Cleared
  /\ (current_mesh_pv = None /\ ~crashed) => scene = Cleared

\* The same, for handlers that return with no other handler in flight.
C20_SceneFollowsStateWhenIdle ==
  (done.op \in SceneHandlers /\ done.result \in {"ok", "failed", "display_failed"}
     /\ stack = <<>>) =>
    IF current_mesh_pv # None THEN scene = SceneOfState ELSE scene = Cleared

\* C21: when remove_image_background has returned and the status line reads
\* "Background removed.", the image the removal returned is displayed as the
\* current image plane; the viewer is not empty.  (Stated for a removal that
\* was not itself started inside another handler.)
C21_StatusTellsRemovalOutcome ==
  (/\ done.op = "remove_image_background"
   /\ status = "Background removed."
   /\ stack = <<>>) =>
    /\ ~Empty
    /\ TexturedPlane
    /\ current_mesh_pv = Plane(current_image_pil)

\* The handlers of a style, colour, reset-colour or opacity change
ControlChanges ==
  {"update_representation", "set_opacity", "set_mesh_color", "reset_mesh_color"}

\* C22: a control change in which an add_mesh call of update_representation
\* raised has ended with the viewer empty: no display buffer, authoring mesh
\* or source image, the image flag clear, no override, opacity 1.0 and the
\* slider at 100, the scene cleared, and every asset-dependent control
\* disabled.
C22_RenderFailureResets ==
  (/\ done.op \in ControlChanges
   /\ \E i \in 1..Len(calls) :
        calls[i].by = "update_representation" /\ calls[i].raised) =>
    /\ done.result = "ok"
    /\ Empty
    /\ current_filepath = None
    /\ override_color = None
    /\ current_opacity = 100
    /\ opacity_slider = 100
    /\ scene = Cleared
    /\ ~remove_bg_button
    /\ ~save_as_action
    /\ ~mesh_color_button
    /\ ~reset_mesh_color_button
    /\ ~opacity_slider_enabled

\* The renderer failed when the opacity of a mesh with an override was changed.
C22_Witness ==
  /\ done = Returned("set_opacity", "ok")
  /\ calls # <<>>
  /\ calls[Len(calls)].raised
  /\ calls[Len(calls)].at.override_color # None
  /\ calls[Len(calls)].at.current_opacity = 50
  /\ Empty
  /\ scene = Cleared

\* C23: a load whose file dialog is cancelled changes neither the asset, the
\* presentation state, the style, the control flags nor the scene; it makes no
\* render call and starts no decode (no handler is left in flight by it).
C23_CancelledLoadChangesNothing ==
  [][((Load3DStart \/ Load2DStart) /\ done'.result = "cancelled") =>
       /\ AssetState' = AssetState
       /\ PresentationState' = PresentationState
       /\ selected_style' = selected_style
       /\ ControlFlags' = ControlFlags
       /\ scene' = scene
       /\ calls' = <<>>
       /\ stack' = stack]_vars

\* The dialog of load_3d_model was cancelled with a coloured mesh shown, an
\* override set and the opacity at one half.
C23_Witness ==
  /\ done = Returned("load_3d_model", "cancelled")
  /\ Mesh3D
  /\ override_color # None
  /\ current_opacity = 50
  /\ scene # Cleared
  /\ status = "File load cancelled."

====
